---- MODULE Spec2Model ----
(***************************************************************************)
(* Model of the entropy-wasm experiment (src/experiments/entropy-wasm):    *)
(* the two exported entry points calculate_entropy and                     *)
(* calculate_entropy_downsampled, which reduce an RGBA byte buffer to a    *)
(* 256-bucket luminance histogram and then to a Shannon entropy.           *)
(*                                                                         *)
(* The byte buffer, width and height are the fields of the ImageData the   *)
(* host hands in.  The code never relates data.len() to width*height (it   *)
(* guards every read with i + 2 < data.len() instead), so the model keeps  *)
(* the three independent.                                                  *)
(*                                                                         *)
(* f64 arithmetic is not available in TLA+: the returned entropy is kept   *)
(* as the exact sequence of terms the entropy loop accumulates, one        *)
(* <<count, divisor>> pair per contributing bucket, in bucket order.  The  *)
(* f64 value is a function of that sequence.                               *)
(*                                                                         *)
(* usize/u32 overflow is out of reach of the bounds below (the largest     *)
(* intermediate value is 255 * 256 = 65280) and is not modelled.           *)
(***************************************************************************)
EXTENDS Integers, Sequences, FiniteSets, TLC

\* ---------------------------------------------------------------- bounds
MaxPixels == 4
MaxWidth == 3
MaxHeight == 3
MaxRate == 3

\* ------------------------------------------------------- program constants
NumBuckets == 256
BytesPerPixel == 4
WeightR == 76
WeightG == 150
WeightB == 30
GrayShift == 8

Buckets == 0 .. (NumBuckets - 1)

\* ------------------------------------------------------------------ inputs
Black == <<0, 0, 0, 255>>
White == <<255, 255, 255, 255>>
Palette == {Black, White}

RECURSIVE Flatten(_)
Flatten(pixels) ==
    IF pixels = <<>> THEN <<>> ELSE Head(pixels) \o Flatten(Tail(pixels))

PixelSeqs == UNION {[1 .. n -> Palette] : n \in 0 .. MaxPixels}

\* A trailing run of 0..3 bytes: the start of one more pixel.
PartialPixels == {SubSeq(p, 1, k) : p \in Palette, k \in 0 .. (BytesPerPixel - 1)}

Buffers == {Flatten(ps) \o t : ps \in PixelSeqs, t \in PartialPixels}

VARIABLES data, width, height, sample_rate, fullRes, downRes

vars == <<data, width, height, sample_rate, fullRes, downRes>>

\* ----------------------------------------------------------------- helpers
\* x >> n on unsigned integers
ShiftRight(x, n) == x \div (2 ^ n)

\* (0..n).step_by(step), step >= 1: 0, step, 2*step, ... below n
StepBy(n, step) == [k \in 1 .. ((n + step - 1) \div step) |-> (k - 1) * step]

\* let gray = ((r * 76 + g * 150 + b * 30) >> 8) as usize;
GrayBadWeights(r, g, b) == ShiftRight(r * WeightR + g * WeightG + b * (WeightB - 1), GrayShift)

Gray(r, g, b) == ShiftRight(r * WeightR + g * WeightG + b * WeightB, GrayShift)

\* if i + 2 < data.len()
InBoundsFirstByteOnly(i, len) == i < len

InBoundsWholeQuad(i, len) == i + 3 < len

InBounds(i, len) == i + 2 < len

\* The working state of a scan.  histogram is the [0u32; 256] array;
\* reads and buckets log every index the scan used on data and on histogram;
\* visited lists the offsets i that passed the guard, in order; panicked is
\* set by an index out of range (Rust's checked indexing aborts the call).
\* sample_count is the counter of the strided scan (sample_count += 1 next
\* to the bucket increment); the full scan has no such counter and
\* calculate_entropy never looks at the field.
EmptyScan ==
    [histogram |-> [b \in Buckets |-> 0], sample_count |-> 0, reads |-> {},
     buckets |-> {}, visited |-> <<>>, panicked |-> FALSE]

\* The guarded loop body shared by both scans: read r, g, b at i, i+1, i+2,
\* compute the bucket and increment it.
Accumulate(d, i, acc) ==
    IF acc.panicked \/ ~InBounds(i, Len(d)) THEN acc
    ELSE LET want == {i, i + 1, i + 2}
             bad == {k \in want : k >= Len(d)}
         IN IF bad /= {}
            THEN LET first == CHOOSE k \in bad : \A m \in bad : k <= m
                 IN [acc EXCEPT !.reads = @ \cup {k \in want : k <= first},
                                !.panicked = TRUE]
            ELSE LET gray == Gray(d[i + 1], d[i + 2], d[i + 3])
                 IN IF gray \notin Buckets
                    THEN [acc EXCEPT !.reads = @ \cup want,
                                     !.buckets = @ \cup {gray},
                                     !.visited = Append(@, i),
                                     !.panicked = TRUE]
                    ELSE [acc EXCEPT !.reads = @ \cup want,
                                     !.buckets = @ \cup {gray},
                                     !.visited = Append(@, i),
                                     !.histogram[gray] = @ + 1,
                                     !.sample_count = @ + 1]

RECURSIVE FoldOffsets(_, _, _)
FoldOffsets(d, offsets, acc) ==
    IF offsets = <<>> THEN acc
    ELSE FoldOffsets(d, Tail(offsets), Accumulate(d, Head(offsets), acc))

\* for i in (0..data.len()).step_by(4) { ... }
FullScanStep8(d) == FoldOffsets(d, StepBy(Len(d), 2 * BytesPerPixel), EmptyScan)

FullScan(d) == FoldOffsets(d, StepBy(Len(d), BytesPerPixel), EmptyScan)

\* for y in (0..height).step_by(rate) { for x in (0..width).step_by(rate) {
\*     let i = (y * width + x) * 4; ... } }
GridOffsetsNoWidth(w, h, rate) ==
    LET ys == StepBy(h, rate)
        xs == StepBy(w, rate)
    IN [k \in 1 .. (Len(ys) * Len(xs)) |->
            (ys[((k - 1) \div Len(xs)) + 1] + xs[((k - 1) % Len(xs)) + 1]) * BytesPerPixel]

GridOffsetsCountDivided(w, h, rate) ==
    LET ny == h \div rate
        nx == w \div rate
    IN [k \in 1 .. (ny * nx) |->
            ((((k - 1) \div nx) * rate) * w + ((k - 1) % nx) * rate) * BytesPerPixel]

GridOffsets(w, h, rate) ==
    LET ys == StepBy(h, rate)
        xs == StepBy(w, rate)
    IN [k \in 1 .. (Len(ys) * Len(xs)) |->
            (ys[((k - 1) \div Len(xs)) + 1] * w + xs[((k - 1) % Len(xs)) + 1]) * BytesPerPixel]

StridedScan(d, w, h, rate) == FoldOffsets(d, GridOffsets(w, h, rate), EmptyScan)

\* for count in histogram.iter() { if *count > 0 {
\*     let probability = *count as f64 / total as f64;
\*     entropy -= probability * probability.log2(); } }
EntropyTerms(histogram, total) ==
    SelectSeq([k \in 1 .. NumBuckets |-> <<histogram[k - 1], total>>],
              LAMBDA t : t[1] > 0)

Result(scan, total) ==
    [called |-> TRUE, histogram |-> scan.histogram, total |-> total,
     entropy |-> EntropyTerms(scan.histogram, total), reads |-> scan.reads,
     buckets |-> scan.buckets, visited |-> scan.visited,
     panicked |-> scan.panicked]

NoResult == [called |-> FALSE]

\* pub fn calculate_entropy(image_data: &ImageData) -> f64
calculate_entropy(d, w, h) == Result(FullScan(d), w * h)

\* pub fn calculate_entropy_downsampled(image_data: &ImageData, sample_rate: u32) -> f64
calculate_entropy_downsampled_NoDispatchAtOne(d, w, h, rate) ==
    IF rate < 1 THEN calculate_entropy(d, w, h)
    ELSE LET scan == StridedScan(d, w, h, rate)
         IN Result(scan, scan.sample_count)

calculate_entropy_downsampled_TotalPixels(d, w, h, rate) ==
    IF rate <= 1 THEN calculate_entropy(d, w, h)
    ELSE LET scan == StridedScan(d, w, h, rate)
         IN Result(scan, w * h)

calculate_entropy_downsampled(d, w, h, rate) ==
    IF rate <= 1 THEN calculate_entropy(d, w, h)
    ELSE LET scan == StridedScan(d, w, h, rate)
         IN Result(scan, scan.sample_count)

\* ------------------------------------------------------------ state machine
Init ==
    /\ data \in Buffers
    /\ width \in 0 .. MaxWidth
    /\ height \in 0 .. MaxHeight
    /\ sample_rate = 0
    /\ fullRes = NoResult
    /\ downRes = NoResult

CalculateEntropy ==
    /\ ~fullRes.called
    /\ fullRes' = calculate_entropy(data, width, height)
    /\ UNCHANGED <<data, width, height, sample_rate, downRes>>

CalculateEntropyDownsampled ==
    /\ ~downRes.called
    /\ \E rate \in 0 .. MaxRate :
          /\ sample_rate' = rate
          /\ downRes' = calculate_entropy_downsampled(data, width, height, rate)
    /\ UNCHANGED <<data, width, height, fullRes>>

Next == CalculateEntropy \/ CalculateEntropyDownsampled

Spec == Init /\ [][Next]_vars

\* ------------------------------------------------- vocabulary of the claims
RECURSIVE SumRange(_, _, _)
SumRange(histogram, lo, hi) ==
    IF lo > hi THEN 0
    ELSE IF lo = hi THEN histogram[lo]
    ELSE LET mid == (lo + hi) \div 2
         IN SumRange(histogram, lo, mid) + SumRange(histogram, mid + 1, hi)

HistogramSum(histogram) == SumRange(histogram, 0, NumBuckets - 1)

NumPixels == Len(data) \div BytesPerPixel

\* zero-based pixel k of the buffer, as <<r, g, b>>
PixelRGB(d, k) ==
    <<d[BytesPerPixel * k + 1], d[BytesPerPixel * k + 2], d[BytesPerPixel * k + 3]>>

PixelBucket(d, k) == Gray(PixelRGB(d, k)[1], PixelRGB(d, k)[2], PixelRGB(d, k)[3])

\* The histogram of the complete pixels of a buffer, stated by counting.
HistogramOfPixels(d) ==
    LET bucketOf == [k \in 0 .. ((Len(d) \div BytesPerPixel) - 1) |-> PixelBucket(d, k)]
    IN [b \in Buckets |-> Cardinality({k \in DOMAIN bucketOf : bucketOf[k] = b})]

Consistent == Len(data) >= width * height * BytesPerPixel

WellFormed == Len(data) = width * height * BytesPerPixel

CeilDiv(n, s) == (n + s - 1) \div s

Strided == downRes.called /\ sample_rate >= 2

Results == {r \in {fullRes, downRes} : r.called}

\* The buffer with its rows in reverse order (rows of width pixels).
ReverseRows(d, w, h) ==
    [k \in 1 .. Len(d) |->
        LET row == (k - 1) \div (BytesPerPixel * w)
            col == (k - 1) % (BytesPerPixel * w)
        IN d[(h - 1 - row) * BytesPerPixel * w + col + 1]]

Uniform == \A j, k \in 0 .. (NumPixels - 1) : PixelRGB(data, j) = PixelRGB(data, k)

BlackPixels == {k \in 0 .. (NumPixels - 1) : PixelRGB(data, k) = <<0, 0, 0>>}

WhitePixels == {k \in 0 .. (NumPixels - 1) : PixelRGB(data, k) = <<255, 255, 255>>}

HalfBlackHalfWhite ==
    /\ WellFormed
    /\ BlackPixels \cup WhitePixels = 0 .. (NumPixels - 1)
    /\ Cardinality(BlackPixels) = Cardinality(WhitePixels)

\* ------------------------------------------------------------------ claims

\* C1 (as claimed): on a buffer with length >= width*height*4 the 256
\* histogram counters of either entry point sum exactly to the sample count
\* the entropy step divides by.
C1_HistogramSumsToDivisor ==
    Consistent => \A r \in Results : HistogramSum(r.histogram) = r.total

\* C2 (as claimed): on a buffer with length >= width*height*4 every
\* contributing bucket of either entry point has 0 < count <= sample count
\* with a non-zero sample count, and no zero bucket contributes.
C2_ProbabilitiesInUnitInterval ==
    Consistent =>
        \A r \in Results :
            /\ Len(r.entropy) = Cardinality({b \in Buckets : r.histogram[b] > 0})
            /\ \A n \in 1 .. Len(r.entropy) :
                  /\ 0 < r.entropy[n][1]
                  /\ r.entropy[n][1] <= r.entropy[n][2]
                  /\ r.entropy[n][2] /= 0

\* C3: calculate_entropy_downsampled with sample_rate 0 or 1 returns the
\* same histogram, sample count and entropy as calculate_entropy on the same
\* input, for every buffer, width and height.
C3_DegenerateStrideIsFullScan ==
    (downRes.called /\ fullRes.called /\ sample_rate <= 1) =>
        /\ downRes.histogram = fullRes.histogram
        /\ downRes.total = fullRes.total
        /\ downRes.entropy = fullRes.entropy

C3_Witness ==
    /\ downRes.called /\ fullRes.called /\ sample_rate = 1
    /\ Len(data) > width * height * BytesPerPixel + 2
    /\ width * height > 0

\* C4: whatever the buffer length, width, height and stride, no scan reads
\* the buffer at a position >= its length (each visited offset i has
\* i + 2 < length) nor indexes the histogram outside 0..255, and the bucket
\* formula stays within 0..255 (swept over every byte value of each channel
\* with the other two channels at 0 and at 255).
C4_NoIndexOutOfRange ==
    /\ \A r \in Results :
          /\ ~r.panicked
          /\ r.reads \subseteq 0 .. (Len(data) - 1)
          /\ r.buckets \subseteq Buckets
          /\ \A n \in 1 .. Len(r.visited) : r.visited[n] + 2 < Len(data)
    /\ (Results = {} /\ data = <<>> /\ width = 0 /\ height = 0) =>
          \A v \in 0 .. 255 : \A p, q \in {0, 255} :
              /\ Gray(v, p, q) \in Buckets
              /\ Gray(p, v, q) \in Buckets
              /\ Gray(p, q, v) \in Buckets

C4_Witness ==
    /\ fullRes.called /\ Strided
    /\ Len(data) % BytesPerPixel = 2
    /\ Len(data) < width * height * BytesPerPixel
    /\ fullRes.reads /= {} /\ downRes.reads /= {}
    /\ 255 \in fullRes.buckets

\* C5 (as claimed): in the full scan, a buffer length with remainder 1, 2 or
\* 3 modulo 4 leaves the final partial pixel out: the histogram is that of
\* the floor(length/4) complete pixels.
C5_PartialPixelExcluded ==
    (fullRes.called /\ Len(data) % BytesPerPixel /= 0) =>
        fullRes.histogram = HistogramOfPixels(data)

\* C5 (amended): with remainder 1 or 2 the final partial pixel is left out;
\* with remainder 3 its r, g, b bytes are all present and it is counted as
\* one more pixel.
C5_PartialPixelExcludedBelowThreeBytes ==
    fullRes.called =>
        /\ Len(data) % BytesPerPixel \in {1, 2} =>
              fullRes.histogram = HistogramOfPixels(data)
        /\ Len(data) % BytesPerPixel = 3 =>
              fullRes.histogram =
                  [HistogramOfPixels(data) EXCEPT ![PixelBucket(data, NumPixels)] = @ + 1]

C5_Witness ==
    /\ fullRes.called
    /\ Len(data) % BytesPerPixel = 3
    /\ NumPixels >= 1
    /\ PixelBucket(data, 0) /= PixelBucket(data, NumPixels)

\* C6: for an image (length = width*height*4) whose pixels all have the same
\* r, g, b, both entry points return 0.0 at every stride: at most one bucket
\* is non-zero and every contributing count equals the sample count.
C6_UniformImageHasZeroEntropy ==
    (WellFormed /\ Uniform) =>
        \A r \in Results :
            /\ Cardinality({b \in Buckets : r.histogram[b] > 0}) <= 1
            /\ \A n \in 1 .. Len(r.entropy) : r.entropy[n][1] = r.entropy[n][2]

C6_Witness ==
    /\ WellFormed /\ Uniform
    /\ width = 2 /\ height = 2
    /\ fullRes.called /\ Strided
    /\ fullRes.entropy = <<<<4, 4>>>>
    /\ downRes.entropy = <<<<1, 1>>>>

\* C7: for a well-formed buffer with half its pixels pure black and half
\* pure white, the full scan puts half the sample count in bucket 0, half in
\* bucket 255 and nothing elsewhere (two terms of probability 1/2: 1.0 bit).
C7_TwoToneBuckets ==
    (fullRes.called /\ HalfBlackHalfWhite) =>
        /\ 2 * fullRes.histogram[0] = fullRes.total
        /\ 2 * fullRes.histogram[255] = fullRes.total
        /\ \A b \in Buckets \ {0, 255} : fullRes.histogram[b] = 0
        /\ fullRes.total > 0 =>
              fullRes.entropy = <<<<fullRes.histogram[0], fullRes.total>>,
                                  <<fullRes.histogram[255], fullRes.total>>>>

C7_Witness ==
    /\ fullRes.called /\ HalfBlackHalfWhite
    /\ fullRes.total = 4
    /\ fullRes.histogram[0] = 2 /\ fullRes.histogram[255] = 2

\* C8 (as claimed): for a well-formed buffer, reversing the row order changes
\* neither the histogram nor the entropy of either entry point, at any stride.
C8_RowReversalInvariant ==
    WellFormed =>
        /\ fullRes.called =>
              LET rev == calculate_entropy(ReverseRows(data, width, height), width, height)
              IN rev.histogram = fullRes.histogram /\ rev.entropy = fullRes.entropy
        /\ downRes.called =>
              LET rev == calculate_entropy_downsampled(
                             ReverseRows(data, width, height), width, height, sample_rate)
              IN rev.histogram = downRes.histogram /\ rev.entropy = downRes.entropy

\* C8 (amended): for a well-formed buffer, reversing the row order changes
\* neither the histogram nor the entropy of calculate_entropy, nor of
\* calculate_entropy_downsampled when the stride is <= 1, the image is empty,
\* or height - 1 is a multiple of the stride (the last row is then a sampled
\* row, so the reversal maps sampled rows to sampled rows).
C8_RowReversalInvariantOnSymmetricGrid ==
    WellFormed =>
        /\ fullRes.called =>
              LET rev == calculate_entropy(ReverseRows(data, width, height), width, height)
              IN rev.histogram = fullRes.histogram /\ rev.entropy = fullRes.entropy
        /\ (downRes.called /\ (sample_rate <= 1 \/ height = 0 \/ width = 0
                                 \/ (height - 1) % sample_rate = 0)) =>
              LET rev == calculate_entropy_downsampled(
                             ReverseRows(data, width, height), width, height, sample_rate)
              IN rev.histogram = downRes.histogram /\ rev.entropy = downRes.entropy

C8_Witness ==
    /\ WellFormed /\ fullRes.called /\ Strided
    /\ height = 3 /\ sample_rate = 2
    /\ ReverseRows(data, width, height) /= data

\* C9: for stride s >= 2 the downsampled scan visits, in row-major order,
\* exactly the in-bounds offsets (y*width + x)*4 with x and y multiples of s
\* below width and height, counts each once, and the sample count is
\* ceil(width/s) * ceil(height/s) when length >= width*height*4, never more,
\* and less only when length < width*height*4.
C9_StridedGrid ==
    Strided =>
        LET s == sample_rate
            grid == {<<x, y>> \in (0 .. (width - 1)) \X (0 .. (height - 1)) :
                        x % s = 0 /\ y % s = 0}
            offsets == {(p[2] * width + p[1]) * BytesPerPixel : p \in grid}
            inside == {i \in offsets : i + 2 < Len(data)}
            full == CeilDiv(width, s) * CeilDiv(height, s)
        IN /\ {downRes.visited[n] : n \in 1 .. Len(downRes.visited)} = inside
           /\ \A m, n \in 1 .. Len(downRes.visited) :
                 m < n => downRes.visited[m] < downRes.visited[n]
           /\ downRes.total = Cardinality(inside)
           /\ downRes.total = HistogramSum(downRes.histogram)
           /\ downRes.total <= full
           /\ Consistent => downRes.total = full
           /\ downRes.total < full => ~Consistent

C9_Witness ==
    /\ Strided /\ Consistent
    /\ sample_rate = 2 /\ width * height >= 3
    /\ downRes.total = 2

\* C10 (as claimed): a stride larger than both width and height makes the
\* sample count of the downsampled scan zero.
C10_OversizedStrideGivesZeroSamples ==
    (Strided /\ sample_rate > width /\ sample_rate > height) => downRes.total = 0

\* C10 (amended): a stride larger than both width and height samples the
\* origin pixel alone: the sample count is one when width and height are
\* >= 1 and the buffer holds at least 3 bytes.  The sample count of the
\* downsampled scan is zero exactly for a zero-area image or a buffer of
\* fewer than 3 bytes, and that zero sample count reaches the entropy step
\* with no contributing bucket.
C10_OversizedStrideSamplesOrigin ==
    Strided =>
        /\ (sample_rate > width /\ sample_rate > height
              /\ width >= 1 /\ height >= 1 /\ Len(data) >= 3) =>
              (downRes.total = 1 /\ downRes.visited = <<0>>)
        /\ downRes.total = 0 <=> (width = 0 \/ height = 0 \/ Len(data) < 3)
        /\ downRes.total = 0 => downRes.entropy = <<>>

C10_Witness ==
    /\ Strided /\ sample_rate > width /\ sample_rate > height
    /\ width = 2 /\ height = 2 /\ Len(data) >= 3
    /\ downRes.total = 1

====
